---- MODULE Spec2Model ----
(***************************************************************************)
(* Model of src/flash/arm_nandio.c: hosted bulk transfer between a debug   *)
(* host and a byte-wide NAND data port, done by uploading a small copy     *)
(* loop into a target working area and running it on the target.           *)
(*                                                                         *)
(* 32-bit quantities that do not fit a TLC integer (instruction words, the *)
(* count register r2) are kept as two 16-bit halves [hi, lo].              *)
(***************************************************************************)
EXTENDS Integers, Sequences, FiniteSets, TLC

VARIABLES copy_area, mem, held, allocated, uploads, is_armv4, endianness, last, conc

vars == <<copy_area, mem, held, allocated, uploads, is_armv4, endianness, last, conc>>

----------------------------------------------------------------------------
(* Return codes. *)

ERROR_OK == 0
ERROR_FAIL == -4
ERROR_TARGET_TIMEOUT == -302
ERROR_TARGET_NOT_HALTED == -304
ERROR_TARGET_DATA_ABORT == -307
ERROR_TARGET_RESOURCE_NOT_AVAILABLE == -308
ERROR_NAND_NO_BUFFER == -1106

(* What each collaborator may answer. *)
AllocRets == {ERROR_OK, ERROR_TARGET_RESOURCE_NOT_AVAILABLE}
MemRets == {ERROR_OK, ERROR_TARGET_DATA_ABORT}
RunRets == {ERROR_OK, ERROR_TARGET_NOT_HALTED}
(* Answers of the engine when the target ran words that are no instruction *)
(* of either loop: the outcome is not determined by this file.             *)
UndefRets == {ERROR_OK, ERROR_FAIL}

----------------------------------------------------------------------------
(* Bounds of the model. *)

\* nand->chunk_size of the one context that is modelled
ChunkSize == 5
\* transfers are requested with sizes 0 .. ChunkSize + Oversize
Oversize == 1
\* RAM that follows the working area and belongs to somebody else
RamSlack == 2
\* first byte of the caller's payload is WriteBase + 1, then + 2, ...
WriteBase == 16
\* first byte the NAND port delivers is NandBase + 1, then + 2, ...: the device
\* holds the page the host programs
NandBase == 16
\* what the caller's read buffer holds before the call
HostFill == 255
\* what a load from an address that is neither RAM nor the port returns
StrayByte == 170
\* how often arm_code_to_working_area may be called directly (SpecApi)
MaxDirect == 2
\* the two overlapping writes of SpecConc are requested with sizes 0 .. ConcMaxSize
ConcMaxSize == 5
\* the payload of the second caller starts ConcShift above that of the first
ConcShift == 32

MaxSize == ChunkSize + Oversize
Sizes == 0 .. MaxSize

----------------------------------------------------------------------------
(* The target. *)

NULL == [address |-> -1, size |-> 0]

\* address the allocator hands out for the first working area
WorkBase == 4096
\* nand->data, the address of the byte-wide NAND data port
NandData == 32768

U32(h, l) == [hi |-> h, lo |-> l]

\* static const uint32_t code[] of arm_nandwrite
WriteCode ==
    << U32(58577, 12289),   \* 0xe4d13001  s: ldrb r3, [r1], #1
       U32(58816, 12288),   \* 0xe5c03000     strb r3, [r0]
       U32(57938, 8193),    \* 0xe2522001     subs r2, r2, #1
       U32(6911, 65531),    \* 0x1afffffb     bne  s
       U32(57632, 112) >>   \* 0xe1200070  e: bkpt #0

\* static const uint32_t code[] of arm_nandread
ReadCode ==
    << U32(58833, 12288),   \* 0xe5d13000  s: ldrb r3, [r1]
       U32(58560, 12289),   \* 0xe4c03001     strb r3, [r0], #1
       U32(57938, 8193),    \* 0xe2522001     subs r2, r2, #1
       U32(6911, 65531),    \* 0x1afffffb     bne  s
       U32(57632, 112) >>   \* 0xe1200070  e: bkpt #0

\* sizeof(code)
CodeSize(code) == 4 * Len(code)

AreaSize == CodeSize(WriteCode) + ChunkSize
RamSize == AreaSize + Oversize + RamSlack
Ram == WorkBase .. (WorkBase + RamSize - 1)

\* the timeout of target_run_algorithm, in instructions the target can run
\* before it expires: more than any requested size needs, far less than 2^32
TimeoutInsns == 4 * (MaxSize + 1)

----------------------------------------------------------------------------
(* Collaborators: target memory. *)

\* target_buffer_set_u32: the four bytes of a word in the target's order
BytesOfWord(w, endian) ==
    IF endian = "little"
    THEN << w.lo % 256, w.lo \div 256, w.hi % 256, w.hi \div 256 >>
    ELSE << w.hi \div 256, w.hi % 256, w.lo \div 256, w.lo % 256 >>

\* slip: word i is put at code_buf + i instead of code_buf + i * 4, so that the
\* words overwrite each other and the end of the buffer is never filled
CodeBuf_stride(code, endian) ==
    [ i \in 1 .. CodeSize(code) |->
        IF i <= Len(code) THEN BytesOfWord(code[i], endian)[1]
        ELSE IF i <= Len(code) + 3 THEN BytesOfWord(code[Len(code)], endian)[i - Len(code) + 1]
        ELSE 0 ]

\* the loop that fills code_buf, one word after the other
CodeBuf(code, endian) ==
    [ i \in 1 .. CodeSize(code) |->
        BytesOfWord(code[((i - 1) \div 4) + 1], endian)[((i - 1) % 4) + 1] ]

\* bytes stored at addr, addr + 1, ...; a store outside the modelled RAM is lost
MemStore(m, addr, bytes) ==
    [ a \in DOMAIN m |->
        IF (a - addr) \in 0 .. (Len(bytes) - 1) THEN bytes[a - addr + 1] ELSE m[a] ]

Peek(m, a) == IF a \in DOMAIN m THEN m[a] ELSE StrayByte

\* n bytes read at addr, addr + 1, ...
MemLoad(m, addr, n) == [ i \in 1 .. n |-> Peek(m, addr + i - 1) ]

\* target_alloc_working_area: one more call; on success *area is a fresh region
TargetAllocWorkingArea(w, size, ret) ==
    LET call == [fn |-> "target_alloc_working_area", size |-> size, ret |-> ret]
    IN  IF ret = ERROR_OK
        THEN [w EXCEPT !.area = [address |-> WorkBase + w.allocated * AreaSize,
                                 size |-> size],
                       !.allocated = @ + 1,
                       !.calls = Append(@, call),
                       !.ret = ret]
        ELSE [w EXCEPT !.calls = Append(@, call), !.ret = ret]

\* target_write_memory(target, address, width, count, buffer)
TargetWriteMemory(w, address, width, count, buffer, ret) ==
    LET call == [fn |-> "target_write_memory", address |-> address,
                 width |-> width, count |-> count, buffer |-> buffer, ret |-> ret]
        bytes == SubSeq(buffer, 1, width * count)
    IN  [w EXCEPT !.mem = IF ret = ERROR_OK THEN MemStore(@, address, bytes) ELSE @,
                  !.calls = Append(@, call),
                  !.ret = ret]

\* target_bulk_write_memory(target, address, count, buffer): count words
TargetBulkWriteMemory(w, address, count, buffer, ret) ==
    LET call == [fn |-> "target_bulk_write_memory", address |-> address,
                 width |-> 4, count |-> count, buffer |-> buffer, ret |-> ret]
        bytes == SubSeq(buffer, 1, 4 * count)
    IN  [w EXCEPT !.mem = IF ret = ERROR_OK THEN MemStore(@, address, bytes) ELSE @,
                  !.calls = Append(@, call),
                  !.ret = ret]

\* target_read_buffer(target, address, size, buffer): buffer filled on success
TargetReadBuffer(w, address, size, ret) ==
    LET call == [fn |-> "target_read_buffer", address |-> address,
                 size |-> size, ret |-> ret]
    IN  [w EXCEPT !.data = IF ret = ERROR_OK THEN MemLoad(w.mem, address, size) ELSE @,
                  !.calls = Append(@, call),
                  !.ret = ret]

----------------------------------------------------------------------------
(* Collaborators: register parameters. *)

InitRegParam(w, name) ==
    [w EXCEPT !.held = @ + 1,
              !.calls = Append(@, [fn |-> "init_reg_param", name |-> name])]

DestroyRegParam(w, name) ==
    [w EXCEPT !.held = @ - 1,
              !.calls = Append(@, [fn |-> "destroy_reg_param", name |-> name])]

\* the three init_reg_param calls of a transfer
InitRegParams(w) == InitRegParam(InitRegParam(InitRegParam(w, "r0"), "r1"), "r2")

\* slip: the parameters are released only after a successful run
DestroyRegParams_onSuccess(w) ==
    IF w.ret = ERROR_OK
    THEN DestroyRegParam(DestroyRegParam(DestroyRegParam(w, "r0"), "r1"), "r2")
    ELSE w

\* the three destroy_reg_param calls of a transfer
DestroyRegParams(w) ==
    DestroyRegParam(DestroyRegParam(DestroyRegParam(w, "r0"), "r1"), "r2")

\* buf_set_u32(value, 0, 32, size) for the count register
CountValue(size) == U32(size \div 65536, size % 65536)

----------------------------------------------------------------------------
(* The target CPU running the injected words (target_run_algorithm). *)

LDRB_R3_R1_POST == U32(58577, 12289)   \* ldrb r3, [r1], #1
STRB_R3_R0      == U32(58816, 12288)   \* strb r3, [r0]
LDRB_R3_R1      == U32(58833, 12288)   \* ldrb r3, [r1]
STRB_R3_R0_POST == U32(58560, 12289)   \* strb r3, [r0], #1
SUBS_R2_1       == U32(57938, 8193)    \* subs r2, r2, #1
BNE_S           == U32(6911, 65531)    \* bne  s   (pc + 8 - 5 * 4)
BKPT_0          == U32(57632, 112)     \* bkpt #0

Instructions ==
    {LDRB_R3_R1_POST, STRB_R3_R0, LDRB_R3_R1, STRB_R3_R0_POST, SUBS_R2_1, BNE_S, BKPT_0}

\* the word the CPU fetches at pc, assembled in the target's byte order
Fetch(m, pc, endian) ==
    LET b == MemLoad(m, pc, 4)
    IN  IF endian = "little"
        THEN U32(b[4] * 256 + b[3], b[2] * 256 + b[1])
        ELSE U32(b[1] * 256 + b[2], b[3] * 256 + b[4])

\* slip: the count stops at 0 instead of wrapping
Sub1_saturating(r) ==
    IF r.lo > 0 THEN U32(r.hi, r.lo - 1)
    ELSE IF r.hi > 0 THEN U32(r.hi - 1, 65535)
    ELSE U32(0, 0)

\* r2 - 1 on 32 bits
Sub1(r) ==
    IF r.lo > 0 THEN U32(r.hi, r.lo - 1)
    ELSE U32((r.hi + 65535) % 65536, 65535)

\* ldrb: the port delivers its next byte, RAM its content
LoadByte(c, a, nand) ==
    IF a = NandData THEN nand[c.nin + 1] ELSE Peek(c.mem, a)

AfterLoad(c, a) == IF a = NandData THEN [c EXCEPT !.nin = @ + 1] ELSE c

\* strb: to the port, to RAM, or to an address outside both
StoreByte(c, a, b) ==
    IF a = NandData THEN [c EXCEPT !.port = Append(@, b)]
    ELSE IF a \in DOMAIN c.mem THEN [c EXCEPT !.mem[a] = b, !.stores = @ \cup {a}]
    ELSE [c EXCEPT !.stores = @ \cup {a}]

\* one instruction
Step(c, insn, nand) ==
    CASE insn = LDRB_R3_R1_POST ->
            [AfterLoad(c, c.r1) EXCEPT !.r3 = LoadByte(c, c.r1, nand),
                                       !.loads = @ \cup {c.r1},
                                       !.r1 = @ + 1, !.pc = @ + 4]
      [] insn = LDRB_R3_R1 ->
            [AfterLoad(c, c.r1) EXCEPT !.r3 = LoadByte(c, c.r1, nand),
                                       !.loads = @ \cup {c.r1},
                                       !.pc = @ + 4]
      [] insn = STRB_R3_R0 ->
            [StoreByte(c, c.r0, c.r3) EXCEPT !.pc = @ + 4]
      [] insn = STRB_R3_R0_POST ->
            [StoreByte(c, c.r0, c.r3) EXCEPT !.r0 = @ + 1, !.pc = @ + 4]
      [] insn = SUBS_R2_1 ->
            [c EXCEPT !.r2 = Sub1(@), !.z = (Sub1(c.r2) = U32(0, 0)),
                      !.iters = @ + 1, !.pc = @ + 4]
      [] insn = BNE_S ->
            [c EXCEPT !.pc = IF c.z THEN @ + 4 ELSE @ - 12]
      [] OTHER -> c

\* runs until the breakpoint (hardware at exit, or the bkpt instruction), until
\* the timeout, or until a word that is no instruction of the loops
RECURSIVE RunCpu(_, _, _, _, _)
RunCpu(c, exit, fuel, nand, endian) ==
    LET insn == Fetch(c.mem, c.pc, endian)
    IN  IF exit # 0 /\ c.pc = exit THEN [c EXCEPT !.status = "halted"]
        ELSE IF insn \notin Instructions THEN [c EXCEPT !.status = "undefined"]
        ELSE IF insn = BKPT_0 THEN [c EXCEPT !.status = "halted"]
        ELSE IF fuel = 0 THEN [c EXCEPT !.status = "timeout"]
        ELSE RunCpu(Step(c, insn, nand), exit, fuel - 1, nand, endian)

\* target_run_algorithm(target, 0, NULL, 3, reg_params, entry, exit, timeout, &algo);
\* env.run is the engine's answer when it does not start the target at all
TargetRunAlgorithm(w, r0, r1, r2, entry, exit, timeout, env) ==
    LET c0 == [pc |-> entry, r0 |-> r0, r1 |-> r1, r2 |-> r2, r3 |-> 0, z |-> FALSE,
               mem |-> w.mem, port |-> w.port, nin |-> 0, iters |-> 0,
               loads |-> {}, stores |-> {}, status |-> "running"]
        c == IF env.run = ERROR_OK
             THEN RunCpu(c0, exit, TimeoutInsns, env.nand, w.endian)
             ELSE [c0 EXCEPT !.status = "refused"]
        ret == CASE c.status = "halted" -> ERROR_OK
                 [] c.status = "timeout" -> ERROR_TARGET_TIMEOUT
                 [] c.status = "undefined" -> env.undef
                 [] OTHER -> env.run
        call == [fn |-> "target_run_algorithm", entry |-> entry, exit |-> exit,
                 timeout |-> timeout, r0 |-> r0, r1 |-> r1, r2 |-> r2,
                 code |-> MemLoad(w.mem, entry, CodeSize(WriteCode)),
                 held |-> w.held, status |-> c.status, iters |-> c.iters,
                 r2out |-> c.r2, pc |-> c.pc,
                 nin |-> c.nin, loads |-> c.loads, stores |-> c.stores, ret |-> ret]
    IN  [w EXCEPT !.mem = c.mem, !.port = c.port,
                  !.calls = Append(@, call), !.ret = ret]

----------------------------------------------------------------------------
(* arm_code_to_working_area *)

\* slip: the area is allocated on every call
AreaMissing_always(area) == TRUE

\* NULL == *area
AreaMissing(area) == area = NULL

\* slip: the allocator's own code is passed on
NoBufferCode_passthrough(retval) == retval

\* what is returned when target_alloc_working_area answered retval # ERROR_OK
NoBufferCode(retval) == ERROR_NAND_NO_BUFFER

\* target_write_memory(target, address, 4, code_size / 4, code_buf), address being
\* the value (*area)->address had when the argument was evaluated
UploadCodeAt(w, address, code, ret) ==
    [TargetWriteMemory(w, address, 4, CodeSize(code) \div 4,
                       CodeBuf(code, w.endian), ret)
        EXCEPT !.uploads = @ + 1]

\* the upload: target_write_memory(target, (*area)->address, 4, code_size / 4, code_buf)
UploadCode(w, code, ret) == UploadCodeAt(w, w.area.address, code, ret)

ArmCodeToWorkingArea(w, code, additional, env) ==
    LET size == CodeSize(code) + additional
        w1 == IF AreaMissing(w.area)
              THEN TargetAllocWorkingArea(w, size, env.alloc)
              ELSE w
    IN  IF AreaMissing(w.area) /\ w1.ret # ERROR_OK
        THEN [w1 EXCEPT !.ret = NoBufferCode(w1.ret)]
        ELSE UploadCode(w1, code, env.upload)

----------------------------------------------------------------------------
(* arm_nandwrite and arm_nandread *)

\* slip: the guard around arm_code_to_working_area is missing
NeedCopyArea_always(area) == TRUE

\* !nand->copy_area
NeedCopyArea(area) == area = NULL

\* size / 4, the word count of the bulk write
BulkWords(size) == size \div 4

\* a & b, bit by bit, for a, b >= 0
RECURSIVE BitAnd(_, _)
BitAnd(a, b) ==
    IF a = 0 \/ b = 0 THEN 0
    ELSE (a % 2) * (b % 2) + 2 * BitAnd(a \div 2, b \div 2)

\* a & ~b, bit by bit, for a, b >= 0
RECURSIVE BitAndNot(_, _)
BitAndNot(a, b) ==
    IF a = 0 THEN 0
    ELSE (a % 2) * (1 - (b % 2)) + 2 * BitAndNot(a \div 2, b \div 2)

\* size & 3
TailCount(size) == BitAnd(size, 3)

\* slip: size & 3 where size & ~3 is meant
TailOffset_low(size) == BitAnd(size, 3)

\* size & ~3
TailOffset(size) == BitAndNot(size, 3)

\* slip: the tail is written whatever the bulk write answered
TailNeeded_always(retval, size) == TailCount(size) # 0

\* retval == ERROR_OK && (size & 3) != 0
TailNeeded(retval, size) == retval = ERROR_OK /\ TailCount(size) # 0

\* the bytes at data + offset
From(data, offset) == SubSeq(data, offset + 1, Len(data))

\* slip: the address after the program instead of its last word
ExitAddress_end(armv4, area, code) ==
    IF armv4 THEN area.address + CodeSize(code) ELSE 0

\* exit = 0; if (armv4_5->is_armv4) exit = nand->copy_area->address + sizeof(code) - 4
ExitAddress(armv4, area, code) ==
    IF armv4 THEN area.address + CodeSize(code) - 4 ELSE 0

\* slip: the staging region is put at the base of the area, over the code
TargetBuf_base(area, code) == area.address

\* target_buf = nand->copy_area->address + sizeof(code)
TargetBuf(area, code) == area.address + CodeSize(code)

\* copy data to work area: the bulk write, then the tail
StageData(w, target_buf, data, size, env) ==
    LET w1 == TargetBulkWriteMemory(w, target_buf, BulkWords(size), data, env.bulk)
    IN  IF TailNeeded(w1.ret, size)
        THEN TargetWriteMemory(w1, target_buf + TailOffset(size), 1, TailCount(size),
                               From(data, TailOffset(size)), env.tail)
        ELSE w1

\* lines 130-157: bind, run, release; retval is the engine's
ExecuteWrite(w, target_buf, size, env) ==
    LET w1 == InitRegParams(w)
        w2 == TargetRunAlgorithm(w1, NandData, target_buf, CountValue(size),
                                 w1.area.address,
                                 ExitAddress(w1.armv4, w1.area, WriteCode), 1000, env)
        w3 == DestroyRegParams(w2)
    IN  [w3 EXCEPT !.ret = w2.ret]

ArmNandWrite(w, data, size, env) ==
    LET w1 == IF NeedCopyArea(w.area)
              THEN ArmCodeToWorkingArea(w, WriteCode, ChunkSize, env)
              ELSE [w EXCEPT !.ret = ERROR_OK]
    IN  IF w1.ret # ERROR_OK THEN w1
        ELSE LET target_buf == TargetBuf(w1.area, WriteCode)
                 w2 == StageData(w1, target_buf, data, size, env)
             IN  IF w2.ret # ERROR_OK THEN w2
                 ELSE ExecuteWrite(w2, target_buf, size, env)

\* slip: the engine's answer is returned, the read-back's dropped
ReadReturn_run(runret, copyret) == runret

\* what arm_nandread returns, given the engine's and the read-back's answers
ReadReturn(runret, copyret) == copyret

\* lines 203-235: bind, run, release, read back
ExecuteRead(w, target_buf, size, env) ==
    LET w1 == InitRegParams(w)
        w2 == TargetRunAlgorithm(w1, target_buf, NandData, CountValue(size),
                                 w1.area.address,
                                 ExitAddress(w1.armv4, w1.area, ReadCode), 1000, env)
        w3 == DestroyRegParams(w2)
        w4 == TargetReadBuffer(w3, target_buf, size, env.copy)
    IN  [w4 EXCEPT !.ret = ReadReturn(w2.ret, w4.ret)]

ArmNandRead(w, size, env) ==
    LET w1 == IF NeedCopyArea(w.area)
              THEN ArmCodeToWorkingArea(w, ReadCode, ChunkSize, env)
              ELSE [w EXCEPT !.ret = ERROR_OK]
    IN  IF w1.ret # ERROR_OK THEN w1
        ELSE ExecuteRead(w1, TargetBuf(w1.area, ReadCode), size, env)

----------------------------------------------------------------------------
(* State machine: one context, transfers issued one after the other. *)

\* the caller's payload of a write
Payload(size) == [ i \in 1 .. size |-> WriteBase + i ]

\* the bytes the NAND device delivers on successive loads from its data port
NandStream == [ k \in 1 .. (MaxSize + 2) |-> NandBase + k ]

\* TRUE when the word at the entry of the working area is an instruction of the
\* loops: the engine's run is then determined by the words in the area
Runnable(area) ==
    area # NULL /\ Fetch(mem, area.address, endianness) \in Instructions

\* the answers of the collaborators during one call; a collaborator the call
\* cannot reach answers ERROR_OK
Envs(area, op) ==
    [ alloc  : IF NeedCopyArea(area) THEN AllocRets ELSE {ERROR_OK},
      upload : IF NeedCopyArea(area) THEN MemRets ELSE {ERROR_OK},
      bulk   : IF op = "write" THEN MemRets ELSE {ERROR_OK},
      tail   : IF op = "write" THEN MemRets ELSE {ERROR_OK},
      run    : RunRets,
      undef  : IF Runnable(area) THEN {ERROR_OK} ELSE UndefRets,
      copy   : IF op = "read" THEN MemRets ELSE {ERROR_OK},
      nand   : {NandStream} ]

\* the context and target as a call finds them
World(data) ==
    [ area |-> copy_area, mem |-> mem, held |-> held, allocated |-> allocated,
      uploads |-> uploads, armv4 |-> is_armv4, endian |-> endianness,
      calls |-> << >>, ret |-> ERROR_OK, port |-> << >>, data |-> data ]

\* the call's effects on the context and the target, and its record
Commit(op, prog, size, data, env, w) ==
    /\ copy_area' = w.area
    /\ mem' = w.mem
    /\ held' = w.held
    /\ allocated' = w.allocated
    /\ uploads' = w.uploads
    /\ last' = [ op |-> op, prog |-> prog, size |-> size, in |-> data, data |-> w.data,
                 nand |-> env.nand, before |-> copy_area, ret |-> w.ret,
                 calls |-> w.calls, port |-> w.port ]
    /\ UNCHANGED <<is_armv4, endianness, conc>>

\* the callers of SpecConc, absent from the sequential specifications
ConcOff ==
    [ serialized |-> TRUE, pc |-> << "off", "off" >>, size |-> << 0, 0 >>,
      arg |-> << 0, 0 >>, buf |-> << 0, 0 >>, nreg |-> << 0, 0 >>,
      entry |-> << 0, 0 >>, exit |-> << 0, 0 >>,
      ret |-> << ERROR_OK, ERROR_OK >>,
      port |-> << << >>, << >> >>, owner |-> [ a \in Ram |-> 0 ], mixed |-> FALSE ]

Init ==
    /\ copy_area = NULL
    /\ mem = [ a \in Ram |-> 0 ]
    /\ held = 0
    /\ allocated = 0
    /\ uploads = 0
    /\ is_armv4 \in BOOLEAN
    /\ endianness \in {"little", "big"}
    /\ last = [ op |-> "none", prog |-> "none", size |-> 0, in |-> << >>, data |-> << >>,
                nand |-> NandStream, before |-> NULL, ret |-> ERROR_OK,
                calls |-> << >>, port |-> << >> ]
    /\ conc = ConcOff

Write ==
    \E size \in Sizes, env \in Envs(copy_area, "write") :
        Commit("write", "write", size, Payload(size), env,
               ArmNandWrite(World(Payload(size)), Payload(size), size, env))

Read ==
    \E size \in Sizes, env \in Envs(copy_area, "read") :
        Commit("read", "read", size, [ i \in 1 .. size |-> HostFill ], env,
               ArmNandRead(World([ i \in 1 .. size |-> HostFill ]), size, env))

Next == Write \/ Read

Spec == Init /\ [][Next]_vars

\* arm_code_to_working_area called on &nand->copy_area by a caller of its own,
\* with either program
Provision ==
    \E prog \in {"write", "read"}, env \in Envs(NULL, "provision") :
        /\ uploads < MaxDirect
        /\ Commit("provision", prog, 0, << >>, env,
                  ArmCodeToWorkingArea(World(<< >>),
                                       IF prog = "write" THEN WriteCode ELSE ReadCode,
                                       ChunkSize, env))

NextApi == Provision \/ Read

SpecApi == Init /\ [][NextApi]_vars

----------------------------------------------------------------------------
(* Reading the record of the last call. *)

Idx(fn) == { i \in 1 .. Len(last.calls) : last.calls[i].fn = fn }

AllocIdx == Idx("target_alloc_working_area")
RunIdx == Idx("target_run_algorithm")
BulkIdx == Idx("target_bulk_write_memory")
CopyIdx == Idx("target_read_buffer")
BindIdx == Idx("init_reg_param")
ReleaseIdx == Idx("destroy_reg_param")
UploadIdx == { i \in Idx("target_write_memory") : last.calls[i].width = 4 }
TailIdx == { i \in Idx("target_write_memory") : last.calls[i].width = 1 }
StageIdx == BulkIdx \cup TailIdx

IsTransfer == last.op \in {"write", "read"}

\* the addresses a staging call writes
Range(c) == c.address .. (c.address + c.width * c.count - 1)

\* the staging address of the last transfer
StagingAddress == copy_area.address + CodeSize(WriteCode)

\* every error code a memory access or the execution engine can answer
AccessAndRunErrors ==
    ((MemRets \cup RunRets \cup UndefRets) \ {ERROR_OK}) \cup {ERROR_TARGET_TIMEOUT}

----------------------------------------------------------------------------
(* Claims *)

\* C1: a read in which target_run_algorithm answers a failure (timeout
\* included) returns a failure, whatever the final read-back answers.
C1_RunFailureFailsRead ==
    (last.op = "read" /\ \E i \in RunIdx : last.calls[i].ret # ERROR_OK)
        => last.ret # ERROR_OK

\* C2: a read that returns success leaves in data[0..size-1], in order, the
\* size bytes the NAND data port delivered, after any earlier transfers.
C2_ReadDeliversPortBytes ==
    (last.op = "read" /\ last.ret = ERROR_OK)
        => last.data = SubSeq(last.nand, 1, last.size)

\* C3: a write of 0 <= size <= chunk_size that returns success has stored to
\* the NAND data port exactly data[0], ..., data[size-1], once each, in order.
\* (Stated for the writes whose loop ran to its breakpoint, so that the success
\* is the target's own and not an answer the engine gave for words it could
\* not run.)
C3_WriteStoresPayload ==
    ( /\ last.op = "write" /\ last.ret = ERROR_OK /\ last.size <= ChunkSize
      /\ \A i \in RunIdx : last.calls[i].status = "halted" )
        => last.port = last.in

\* C4 as stated: a second call of arm_code_to_working_area on the same context
\* with the same program keeps the handle, allocates nothing and uploads
\* nothing.
C4_SecondCallUploadsNothing ==
    [][ ( /\ last.op = "provision" /\ last.ret = ERROR_OK
          /\ last'.op = "provision" /\ last'.prog = last.prog )
        => ( /\ copy_area' = copy_area
             /\ allocated' = allocated
             /\ uploads' = uploads ) ]_vars

\* C4 amended: a second call of arm_code_to_working_area on the same context
\* with the same program keeps the handle and allocates nothing, and it uploads
\* the code once more; on success the area holds the program.
C4_SecondCallKeepsArea ==
    [][ ( /\ last.op = "provision" /\ last.ret = ERROR_OK
          /\ last'.op = "provision" /\ last'.prog = last.prog )
        => ( /\ copy_area' = copy_area
             /\ allocated' = allocated
             /\ uploads' = uploads + 1
             /\ \A i \in 1 .. Len(last'.calls) :
                    /\ last'.calls[i].fn = "target_write_memory"
                    /\ last'.calls[i].address = copy_area.address
                    /\ last'.calls[i].width = 4
             /\ Len(last'.calls) = 1
             /\ last'.ret = ERROR_OK => mem' = mem ) ]_vars

C4_Witness ==
    /\ last.op = "provision" /\ last.before # NULL /\ last.ret = ERROR_OK
    /\ copy_area = last.before
    /\ allocated = 1 /\ uploads = 2
    /\ Cardinality(UploadIdx) = 1 /\ AllocIdx = {}

\* C5: every write and read returns with as many register parameters released
\* as bound, and none held, on every exit path.
C5_RegistersReleased ==
    /\ held = 0
    /\ Cardinality(ReleaseIdx) = Cardinality(BindIdx)
    /\ (RunIdx # {} => Cardinality(BindIdx) = 3)
    /\ \A i \in RunIdx : last.calls[i].held = 3

C5_Witness ==
    /\ IsTransfer
    /\ \E i \in RunIdx : last.calls[i].ret = ERROR_TARGET_TIMEOUT
    /\ Cardinality(BindIdx) = 3 /\ Cardinality(ReleaseIdx) = 3
    /\ held = 0

\* C6: when the allocator fails during a transfer on a context without a
\* working area, the transfer returns ERROR_NAND_NO_BUFFER, a code no memory
\* access and no execution answers, and it wrote no target memory, bound no
\* register and ran nothing.
C6_NoBuffer ==
    (IsTransfer /\ \E i \in AllocIdx : last.calls[i].ret # ERROR_OK)
        => /\ last.ret = ERROR_NAND_NO_BUFFER
           /\ last.ret \notin AccessAndRunErrors
           /\ Len(last.calls) = 1
           /\ StageIdx = {} /\ UploadIdx = {} /\ BindIdx = {} /\ RunIdx = {}
           /\ last.port = << >>

C6_Witness ==
    /\ last.op = "read" /\ last.before = NULL
    /\ \E i \in AllocIdx : last.calls[i].ret = ERROR_TARGET_RESOURCE_NOT_AVAILABLE
    /\ last.ret = ERROR_NAND_NO_BUFFER

\* C7: over any sequence of writes and reads, once copy_area is present its
\* handle, address and size never change, no later call allocates, and the
\* code is uploaded at most once in the life of the context.
C7_AreaProvisionedOnce ==
    /\ (last.before # NULL
            => copy_area = last.before /\ AllocIdx = {} /\ UploadIdx = {})
    /\ allocated <= 1
    /\ uploads <= 1

C7_Witness ==
    /\ last.op = "read" /\ last.before # NULL /\ RunIdx # {}
    /\ copy_area = last.before /\ uploads = 1 /\ allocated = 1

\* C8: the staging step of a write sends size - (size mod 4) bytes through the
\* bulk path at the staging address and, only when size mod 4 is not 0,
\* size mod 4 bytes through the byte path at staging address + size -
\* (size mod 4), taken from data at the same offset; together they write each
\* of staging[0..size-1] exactly once, staging[i] = data[i].
C8_StagingSplit ==
    (last.op = "write" /\ BulkIdx # {}) =>
        LET size == last.size
            rem == size % 4
            b == last.calls[CHOOSE i \in BulkIdx : TRUE]
        IN  /\ Cardinality(BulkIdx) = 1
            /\ b.address = StagingAddress
            /\ 4 * b.count = size - rem
            /\ \A j \in 1 .. (4 * b.count) : b.buffer[j] = last.in[j]
            /\ (TailIdx # {} => rem # 0)
            /\ ((b.ret = ERROR_OK /\ rem # 0) => Cardinality(TailIdx) = 1)
            /\ \A i \in TailIdx :
                   /\ last.calls[i].address = StagingAddress + size - rem
                   /\ last.calls[i].count = rem
                   /\ \A j \in 1 .. rem :
                          last.calls[i].buffer[j] = last.in[size - rem + j]
            /\ ((\A i \in StageIdx : last.calls[i].ret = ERROR_OK) =>
                   /\ UNION { Range(last.calls[i]) : i \in StageIdx }
                          = StagingAddress .. (StagingAddress + size - 1)
                   /\ \A k \in 0 .. (size - 1) :
                          /\ Cardinality({ i \in StageIdx :
                                 (StagingAddress + k) \in Range(last.calls[i]) }) = 1
                          /\ \A i \in StageIdx :
                                 (StagingAddress + k) \in Range(last.calls[i]) =>
                                     last.calls[i].buffer[StagingAddress + k
                                         - last.calls[i].address + 1] = last.in[k + 1])

C8_Witness ==
    /\ last.op = "write" /\ last.size = 5
    /\ \E i \in BulkIdx : last.calls[i].count = 1 /\ last.calls[i].ret = ERROR_OK
    /\ \E i \in TailIdx :
           /\ last.calls[i].count = 1 /\ last.calls[i].ret = ERROR_OK
           /\ last.calls[i].address = StagingAddress + 4
    /\ MemLoad(mem, StagingAddress, 5) = last.in

\* C9: in a write, a failure of the bulk or of the tail staging write is
\* returned unchanged, the tail is not attempted after a bulk failure, and no
\* register is bound and the engine is not run: the engine runs only after the
\* whole payload was staged with success.
C9_StagingFailureAborts ==
    last.op = "write" =>
        /\ \A i \in StageIdx : last.calls[i].ret # ERROR_OK =>
               /\ last.ret = last.calls[i].ret
               /\ i = Len(last.calls)
               /\ BindIdx = {} /\ RunIdx = {} /\ last.port = << >>
        /\ \A i \in BulkIdx : last.calls[i].ret # ERROR_OK => TailIdx = {}
        /\ RunIdx # {} =>
               /\ \E i \in BulkIdx : last.calls[i].ret = ERROR_OK
               /\ \A i \in StageIdx : last.calls[i].ret = ERROR_OK
               /\ (last.size % 4 # 0 => TailIdx # {})

C9_Witness ==
    /\ last.op = "write" /\ last.size = 5 /\ last.ret = ERROR_TARGET_DATA_ABORT
    /\ \E i \in BulkIdx : last.calls[i].ret = ERROR_OK
    /\ \E i \in TailIdx : last.calls[i].ret = ERROR_TARGET_DATA_ABORT
    /\ RunIdx = {} /\ BindIdx = {}

\* C10: in a read, when the run succeeds and the final read-back of the staging
\* region fails, the read returns the read-back's error, never success.
C10_CopyFailureFailsRead ==
    ( /\ last.op = "read"
      /\ \E i \in RunIdx : last.calls[i].ret = ERROR_OK
      /\ \E i \in CopyIdx : last.calls[i].ret # ERROR_OK )
        => /\ last.ret # ERROR_OK
           /\ \A i \in CopyIdx : last.ret = last.calls[i].ret

C10_Witness ==
    /\ last.op = "read" /\ last.size > 0
    /\ \E i \in RunIdx : last.calls[i].ret = ERROR_OK /\ last.calls[i].status = "halted"
    /\ \E i \in CopyIdx : last.calls[i].ret = ERROR_TARGET_DATA_ABORT
    /\ last.ret = ERROR_TARGET_DATA_ABORT

\* C11: in every execution of a write or a read the entry address is the base
\* of the working area, the timeout is 1000 ms, and the exit address is base +
\* sizeof(code) - 4, the address of the bkpt word that ends the program, on an
\* ARMv4 core and 0 on any other.
C11_EntryExitTimeout ==
    IsTransfer =>
        \A i \in RunIdx :
            /\ last.calls[i].entry = copy_area.address
            /\ last.calls[i].timeout = 1000
            /\ (is_armv4 => last.calls[i].exit = copy_area.address + 16)
            /\ (~is_armv4 => last.calls[i].exit = 0)
            /\ (is_armv4 /\ UploadIdx # {} =>
                    Fetch(mem, last.calls[i].exit, endianness) = BKPT_0)
            /\ (is_armv4 => last.calls[i].exit + 4 = copy_area.address + copy_area.size - ChunkSize)

C11_Witness ==
    /\ IsTransfer /\ is_armv4
    /\ \E i \in RunIdx :
           /\ last.calls[i].exit = WorkBase + 16
           /\ last.calls[i].entry = WorkBase
           /\ last.calls[i].status = "halted"

\* C12: the bytes uploaded for the program are, word by word, the word's four
\* bytes in the target's byte order: least significant first on a little-endian
\* target, most significant first on a big-endian one; the two orders give
\* uploads of the same length, sizeof(code), that are each other's per-word
\* reversal.
C12_UploadInTargetOrder ==
    \A i \in UploadIdx :
        LET buf == last.calls[i].buffer
            code == IF last.prog = "write" THEN WriteCode ELSE ReadCode
            other == IF endianness = "little" THEN "big" ELSE "little"
        IN  /\ Len(buf) = 20
            /\ last.calls[i].width * last.calls[i].count = 20
            /\ \A k \in 0 .. 4 :
                   /\ endianness = "little" =>
                          /\ buf[4 * k + 1] + 256 * buf[4 * k + 2] = code[k + 1].lo
                          /\ buf[4 * k + 3] + 256 * buf[4 * k + 4] = code[k + 1].hi
                   /\ endianness = "big" =>
                          /\ 256 * buf[4 * k + 1] + buf[4 * k + 2] = code[k + 1].hi
                          /\ 256 * buf[4 * k + 3] + buf[4 * k + 4] = code[k + 1].lo
                   /\ \A j \in 1 .. 4 :
                          /\ buf[4 * k + j] \in 0 .. 255
                          /\ buf[4 * k + j] = CodeBuf(code, other)[4 * k + 5 - j]

C12_Witness ==
    /\ last.op = "write" /\ endianness = "big"
    /\ \E i \in UploadIdx :
           /\ last.calls[i].ret = ERROR_OK
           /\ SubSeq(last.calls[i].buffer, 1, 4) = << 228, 209, 48, 1 >>
    /\ MemLoad(mem, copy_area.address, 4) = << 228, 209, 48, 1 >>

\* the two programs as they lie in target memory
LoopImage(prog) ==
    CodeBuf(IF prog = "write" THEN WriteCode ELSE ReadCode, endianness)

\* C13: whenever a transfer invokes the engine, after any interleaved sequence
\* of writes and reads, the program in the working area is the loop of that
\* transfer's own direction.  (Stated for the areas that hold one of the two
\* loops and the runs in which the engine started the target, so that the
\* program run is one the code uploaded.)
C13_OwnLoopRuns ==
    IsTransfer =>
        \A i \in RunIdx :
            ( /\ last.calls[i].status # "refused"
              /\ last.calls[i].code \in {LoopImage("write"), LoopImage("read")} )
                => last.calls[i].code = LoopImage(last.op)

\* C14: no write or read invokes the engine on a working area into which the
\* program was never uploaded with success.  (Stated for the runs in which
\* the engine started the target.)
C14_RunOnlyUploadedCode ==
    IsTransfer =>
        \A i \in RunIdx :
            last.calls[i].status # "refused"
                => last.calls[i].code \in {LoopImage("write"), LoopImage("read")}

\* C15: the loops test the count only after the body.  Started with count =
\* size >= 1 they run the body exactly size times and then reach the trap;
\* started with count = 0 they copy a byte, the 32-bit count wraps to 2^32 - 1,
\* and the trap is not reached after zero copies: a transfer of size 0 copies
\* at least one byte.
C15_TestAfterBody ==
    IsTransfer =>
        \A i \in RunIdx :
            LET c == last.calls[i]
            IN  ( /\ c.status \in {"halted", "timeout"}
                  /\ c.code \in {LoopImage("write"), LoopImage("read")} ) =>
                    /\ c.r2 = U32(0, last.size)
                    /\ (last.size >= 1 =>
                            /\ c.status = "halted"
                            /\ c.iters = last.size
                            /\ c.r2out = U32(0, 0)
                            /\ c.pc = c.entry + 16
                            /\ (c.code = LoopImage("write") =>
                                    Cardinality(c.loads) = last.size)
                            /\ (c.code = LoopImage("read") =>
                                    Cardinality(c.stores) + Len(last.port) = last.size)
                            /\ (c.code = LoopImage(last.op) /\ last.op = "write" =>
                                    Len(last.port) = last.size)
                            /\ (c.code = LoopImage(last.op) /\ last.op = "read" =>
                                    c.nin = last.size))
                    /\ (last.size = 0 =>
                            /\ c.status = "timeout"
                            /\ c.iters >= 1
                            /\ c.r2out = U32(65535, 65536 - c.iters)
                            /\ c.pc # c.entry + 16
                            /\ c.loads # {}
                            /\ (c.stores # {} \/ last.port # << >>))

C15_Witness ==
    /\ last.op = "write" /\ last.size = 0
    /\ \E i \in RunIdx :
           /\ last.calls[i].code = LoopImage("write")
           /\ last.calls[i].status = "timeout"
           /\ last.calls[i].r2out.hi = 65535
    /\ Len(last.port) >= 1

\* the data region of the working area: base + sizeof(code) up to its end
DataRegion ==
    (copy_area.address + 20) .. (copy_area.address + 20 + ChunkSize - 1)

\* every target address the last transfer touched through a buffer pointer:
\* staged, loaded or stored by the loop (the port aside), or read back
BufferAccesses ==
    UNION ( { Range(last.calls[i]) : i \in StageIdx }
            \cup { (last.calls[i].loads \cup last.calls[i].stores) \ {NandData}
                       : i \in RunIdx }
            \cup { last.calls[i].address .. (last.calls[i].address + last.calls[i].size - 1)
                       : i \in CopyIdx } )

\* the engine ran the loop of the transfer's own direction
OwnLoopRan ==
    /\ RunIdx # {}
    /\ \A i \in RunIdx : /\ last.calls[i].code = LoopImage(last.op)
                         /\ last.calls[i].status # "refused"

\* C16: a transfer with 1 <= size <= chunk_size on a context provisioned by a
\* transfer of the same direction touches target memory, through the staging
\* write, the loop's buffer pointer and the read-back, only inside
\* [base + sizeof(code), base + sizeof(code) + chunk_size): inside the area,
\* outside the code.  Nothing checks size <= chunk_size: a larger transfer is
\* carried out the same way and reaches past the end of the area.
C16_AccessesInDataRegion ==
    (IsTransfer /\ last.size >= 1 /\ OwnLoopRan) =>
        /\ (last.size <= ChunkSize =>
                /\ BufferAccesses = copy_area.address + 20
                                        .. (copy_area.address + 20 + last.size - 1)
                /\ BufferAccesses \subseteq DataRegion
                /\ DataRegion \subseteq
                       copy_area.address .. (copy_area.address + copy_area.size - 1)
                /\ BufferAccesses \cap
                       (copy_area.address .. (copy_area.address + 19)) = {}
                /\ MemLoad(mem, copy_area.address, 20) = LoopImage(last.op))
        /\ (last.size > ChunkSize =>
                /\ (copy_area.address + copy_area.size) \in BufferAccesses
                /\ \A i \in BulkIdx : 4 * last.calls[i].count + (last.size % 4) = last.size
                /\ \A i \in CopyIdx : last.calls[i].size = last.size
                /\ \A i \in RunIdx : last.calls[i].r2 = U32(0, last.size))

C16_Witness ==
    /\ last.op = "read" /\ last.size = ChunkSize /\ OwnLoopRan
    /\ last.ret = ERROR_OK
    /\ BufferAccesses = DataRegion

\* a transfer larger than chunk_size that ran and reached past the area
C16_OversizeReached ==
    /\ last.op = "write" /\ last.size > ChunkSize /\ OwnLoopRan
    /\ last.ret = ERROR_OK
    /\ (copy_area.address + copy_area.size) \in BufferAccesses

----------------------------------------------------------------------------------------------------------------------------------------------------------------------------------------------------
(* Two callers of arm_nandwrite on one context, without synchronisation.      *)
(* nand->copy_area is shared by the callers and the code reads it at lines    *)
(* 112, 52, 65, 121, 145 and 149; target_alloc_working_area writes it at line *)
(* 53.  A step of caller p makes one access to what the callers share: one    *)
(* read of copy_area, or one collaborator call on the target or on the        *)
(* register parameters, together with the code on the caller's own variables  *)
(* around it.  Nothing read of copy_area is read again within a step, so the  *)
(* other caller can change it between any two reads.  conc.pc[p] names the    *)
(* access caller p makes next; conc.arg, conc.buf, conc.entry and conc.exit   *)
(* are its locals (the address argument of the pending memory call,           *)
(* target_buf, and the entry and exit arguments of the run) and conc.nreg the *)
(* number of register parameters it holds.  When conc.serialized holds the    *)
(* callers take turns: a call starts only when the other caller is not inside *)
(* arm_nandwrite.                                                             *)

Procs == {1, 2}
Other(p) == 3 - p
ConcSizes == 0 .. ConcMaxSize

\* the payload of caller p
ConcPayload(p, size) == [ i \in 1 .. size |-> WriteBase + ConcShift * p + i ]

\* the staging bytes a write call of caller p has just written: p owns them
Staged(owner, p, address, n, ret) ==
    [ a \in DOMAIN owner |->
        IF ret = ERROR_OK /\ (a - address) \in 0 .. (n - 1) THEN p ELSE owner[a] ]

\* reg_params[0..2] in the order the code initialises and destroys them
RegNames == << "r0", "r1", "r2" >>

InitConc ==
    /\ copy_area = NULL
    /\ mem = [ a \in Ram |-> 0 ]
    /\ held = 0
    /\ allocated = 0
    /\ uploads = 0
    /\ is_armv4 \in BOOLEAN
    /\ endianness \in {"little", "big"}
    /\ last = [ op |-> "none", prog |-> "none", size |-> 0, in |-> << >>, data |-> << >>,
                nand |-> NandStream, before |-> NULL, ret |-> ERROR_OK,
                calls |-> << >>, port |-> << >> ]
    /\ \E ser \in BOOLEAN :
           conc = [ConcOff EXCEPT !.serialized = ser, !.pc = << "idle", "idle" >>]

\* the effects of one step on the context and the target
CommitConc(w, c) ==
    /\ copy_area' = w.area
    /\ mem' = w.mem
    /\ held' = w.held
    /\ allocated' = w.allocated
    /\ uploads' = w.uploads
    /\ conc' = c
    /\ UNCHANGED <<is_armv4, endianness, last>>

\* a step that only reads what is shared: the caller's locals change
Local(c) ==
    /\ conc' = c
    /\ UNCHANGED <<copy_area, mem, held, allocated, uploads, is_armv4, endianness, last>>

\* where a write goes after a collaborator answered ret: on to next, or out of
\* arm_nandwrite with retval
Goto(p, ret, next) ==
    [conc EXCEPT !.pc[p] = IF ret = ERROR_OK THEN next ELSE "done",
                 !.arg[p] = 0,
                 !.ret[p] = ret]

\* caller p enters arm_nandwrite(nand, data, size); line 112 tests copy_area
CCall(p) ==
    /\ conc.pc[p] = "idle"
    /\ conc.serialized => conc.pc[Other(p)] \in {"idle", "done"}
    /\ \E size \in ConcSizes :
           Local([conc EXCEPT
               !.size[p] = size,
               !.pc[p] = IF NeedCopyArea(copy_area) THEN "area" ELSE "target_buf"])

\* line 52 in arm_code_to_working_area: the second test of copy_area
CArea(p) ==
    /\ conc.pc[p] = "area"
    /\ Local([conc EXCEPT !.pc[p] = IF AreaMissing(copy_area) THEN "alloc" ELSE "address"])

\* lines 53-58: target_alloc_working_area answers and, on success, replaces *area
CAlloc(p) ==
    /\ conc.pc[p] = "alloc"
    /\ \E ret \in AllocRets :
           LET w == TargetAllocWorkingArea(World(<< >>),
                                           CodeSize(WriteCode) + ChunkSize, ret)
           IN  CommitConc(w, Goto(p, IF ret = ERROR_OK THEN ret ELSE NoBufferCode(ret),
                                  "address"))

\* lines 60-65: code_buf is filled, then (*area)->address is read for the upload
CAddress(p) ==
    /\ conc.pc[p] = "address"
    /\ Local([conc EXCEPT !.pc[p] = "upload", !.arg[p] = copy_area.address])

\* lines 65-68 and 115-117: the upload answers
CUpload(p) ==
    /\ conc.pc[p] = "upload"
    /\ \E ret \in MemRets :
           CommitConc(UploadCodeAt(World(<< >>), conc.arg[p], WriteCode, ret),
                      Goto(p, ret, "target_buf"))

\* line 121: target_buf = nand->copy_area->address + sizeof(code)
CTargetBuf(p) ==
    /\ conc.pc[p] = "target_buf"
    /\ Local([conc EXCEPT !.pc[p] = "bulk", !.arg[p] = TargetBuf(copy_area, WriteCode)])

\* lines 122-123: target_bulk_write_memory answers
CBulk(p) ==
    /\ conc.pc[p] = "bulk"
    /\ \E ret \in MemRets :
           LET size == conc.size[p]
               buf == conc.arg[p]
               w == TargetBulkWriteMemory(World(<< >>), buf, BulkWords(size),
                                          ConcPayload(p, size), ret)
               next == IF TailNeeded(ret, size) THEN "tail"
                       ELSE IF ret = ERROR_OK THEN "init_reg" ELSE "done"
           IN  CommitConc(w, [conc EXCEPT
                   !.pc[p] = next, !.ret[p] = ret, !.buf[p] = buf, !.arg[p] = 0,
                   !.owner = Staged(@, p, buf, 4 * BulkWords(size), ret)])

\* lines 124-128: the tail, target_write_memory, at the local target_buf
CTail(p) ==
    /\ conc.pc[p] = "tail"
    /\ \E ret \in MemRets :
           LET size == conc.size[p]
               at == conc.buf[p] + TailOffset(size)
               w == TargetWriteMemory(World(<< >>), at, 1, TailCount(size),
                                      From(ConcPayload(p, size), TailOffset(size)), ret)
           IN  CommitConc(w, [Goto(p, ret, "init_reg") EXCEPT
                   !.owner = Staged(@, p, at, TailCount(size), ret)])

\* lines 135-137: one init_reg_param
CInitReg(p) ==
    /\ conc.pc[p] = "init_reg"
    /\ CommitConc(InitRegParam(World(<< >>), RegNames[conc.nreg[p] + 1]),
                  [conc EXCEPT !.nreg[p] = @ + 1,
                               !.pc[p] = IF conc.nreg[p] + 1 = Len(RegNames)
                                         THEN "exit" ELSE "init_reg"])

\* lines 139-145: buf_set_u32, then exit is computed from copy_area
CExit(p) ==
    /\ conc.pc[p] = "exit"
    /\ Local([conc EXCEPT !.pc[p] = "entry",
                          !.exit[p] = ExitAddress(is_armv4, copy_area, WriteCode)])

\* line 149: nand->copy_area->address is read for the entry argument
CEntry(p) ==
    /\ conc.pc[p] = "entry"
    /\ Local([conc EXCEPT !.pc[p] = "run", !.entry[p] = copy_area.address])

\* lines 148-151: target_run_algorithm answers; conc.mixed records that the run
\* copied to the port a staging byte the other caller's write had put there
CRun(p) ==
    /\ conc.pc[p] = "run"
    /\ \E env \in [ run : RunRets, undef : UndefRets, nand : {NandStream} ] :
           LET w == TargetRunAlgorithm(World(<< >>), NandData, conc.buf[p],
                                       CountValue(conc.size[p]), conc.entry[p],
                                       conc.exit[p], 1000, env)
               foreign == { a \in w.calls[1].loads \cap DOMAIN conc.owner :
                              conc.owner[a] = Other(p) }
           IN  CommitConc(w, [conc EXCEPT
                   !.pc[p] = "destroy_reg", !.ret[p] = w.ret, !.port[p] = w.port,
                   !.mixed = @ \/ (foreign # {} /\ w.port # << >>)])

\* lines 153-157: one destroy_reg_param; after the last, return retval
CDestroyReg(p) ==
    /\ conc.pc[p] = "destroy_reg"
    /\ CommitConc(DestroyRegParam(World(<< >>),
                                  RegNames[Len(RegNames) - conc.nreg[p] + 1]),
                  [conc EXCEPT !.nreg[p] = @ - 1,
                               !.pc[p] = IF conc.nreg[p] = 1 THEN "done"
                                         ELSE "destroy_reg"])

NextConc ==
    \E p \in Procs :
        \/ CCall(p)
        \/ CArea(p)
        \/ CAlloc(p)
        \/ CAddress(p)
        \/ CUpload(p)
        \/ CTargetBuf(p)
        \/ CBulk(p)
        \/ CTail(p)
        \/ CInitReg(p)
        \/ CExit(p)
        \/ CEntry(p)
        \/ CRun(p)
        \/ CDestroyReg(p)

SpecConc == InitConc /\ [][NextConc]_vars

\* both callers passed the tests of copy_area before either allocated: the
\* working area is allocated twice and the first one is lost to the context
DoubleAllocation == allocated = 2 /\ copy_area.address = WorkBase + AreaSize

\* C17: the core has no locking.  When two writes on one context are
\* interleaved at the granularity of collaborator calls, a state is reachable
\* in which one write's run copies to the port staging bytes written by the
\* other write; when the caller serializes the calls no such state is
\* reachable.  This formula is the second half: serialized callers never mix.
C17_SerializedNeverMixes == conc.serialized => ~conc.mixed

\* the first half of C17: two overlapping writes of size >= 1, both run to the
\* breakpoint, one of them having copied the other's bytes
C17_InterleavedMixes ==
    /\ ~conc.serialized /\ conc.mixed
    /\ \A p \in Procs : conc.size[p] >= 1 /\ conc.ret[p] = ERROR_OK /\ conc.pc[p] = "done"

\* what does hold of serialized callers: writes of size >= 1 never mix
C17_SerializedNonEmptyNeverMix ==
    (conc.serialized /\ \A p \in Procs : conc.pc[p] # "idle" => conc.size[p] >= 1)
        => ~conc.mixed

====
